---- MODULE Spec2Model ----
(***************************************************************************)
(* Model of the "would you rather" question generator:                     *)
(*   - netlify/functions/generate-question.js, which holds two variants of *)
(*     exports.handler: the free-text variant (lines 8-102, regex-based    *)
(*     extraction) and the structured variant (lines 111-192, JSON.parse   *)
(*     of a schema-constrained reply).                                     *)
(* A JavaScript string is a sequence of one-character strings.  A JSON     *)
(* text is a sequence of JSON tokens.                                      *)
(***************************************************************************)
EXTENDS Integers, Sequences, FiniteSets, TLC

\* ------------------------------------------------------------------ bounds
\* Longest model reply, in parts (see TextParts), explored exhaustively
\* when the free-text extraction is examined on its own.
MaxParts == 4
\* Longest option text, in characters, of the replies that follow the
\* requested format (see FormattedTexts).
MaxOptionLen == 2
\* Longest free-text reply, in parts, in the end-to-end handler runs.
MaxReplyParts == 2
\* Longest structured reply, in parts (see JsonParts), that is not one of
\* the schema-conforming replies.
MaxJsonParts == 3
\* Longest response body, in parts (see JsonParts), the page receives
\* besides the schema-conforming, partial and failure bodies.
MaxPageParts == 2

\* --------------------------------------------------------------- literals
InitialOptionA ==
    <<"W","o","u","l","d"," ","y","o","u"," ","r","a","t","h","e","r"," ","h","a","v","e"," ","a"," ","p","e","t"," ","d","r","a","g","o","n">>
InitialOptionB ==
    <<"O","r"," ","a"," ","p","e","t"," ","u","n","i","c","o","r","n">>
FallbackOptionB ==
    <<"o","r"," ","f","a","c","e"," ","a"," ","n","e","w"," ","c","h","a","l","l","e","n","g","e","?">>
DefaultOptionA ==
    <<"W","o","u","l","d"," ","y","o","u"," ","r","a","t","h","e","r"," ","a","l","w","a","y","s"," ","b","e"," ","1","0"," ","m","i","n","u","t","e","s"," ","l","a","t","e",",">>
DefaultOptionB ==
    <<"o","r"," ","a","l","w","a","y","s"," ","b","e"," ","2","0"," ","m","i","n","u","t","e","s"," ","e","a","r","l","y","?">>
KeyOptionA ==
    <<"o","p","t","i","o","n","A">>
KeyOptionB ==
    <<"o","p","t","i","o","n","B">>
KeyCategory ==
    <<"c","a","t","e","g","o","r","y">>
KeyMessage ==
    <<"m","e","s","s","a","g","e">>
KeyDetails ==
    <<"d","e","t","a","i","l","s">>
KeyError ==
    <<"e","r","r","o","r">>
MsgMethodNotAllowed ==
    <<"M","e","t","h","o","d"," ","N","o","t"," ","A","l","l","o","w","e","d">>
MsgKeyNotSet ==
    <<"S","e","r","v","e","r"," ","c","o","n","f","i","g","u","r","a","t","i","o","n"," ","e","r","r","o","r",":"," ","A","P","I"," ","k","e","y"," ","n","o","t"," ","s","e","t",".">>
MsgKeyMissing ==
    <<"S","e","r","v","e","r"," ","c","o","n","f","i","g","u","r","a","t","i","o","n"," ","e","r","r","o","r",":"," ","A","P","I"," ","k","e","y"," ","m","i","s","s","i","n","g",".">>
MsgGenerationFailed ==
    <<"E","r","r","o","r"," ","g","e","n","e","r","a","t","i","n","g"," ","q","u","e","s","t","i","o","n"," ","f","r","o","m"," ","A","I",".">>
General ==
    <<"G","e","n","e","r","a","l">>
Food ==
    <<"F","o","o","d">>

ErrFetchFailed ==
    <<"f","e","t","c","h"," ","f","a","i","l","e","d">>
ErrBlocked ==
    <<"R","e","s","p","o","n","s","e"," ","w","a","s"," ","b","l","o","c","k","e","d">>
ErrSyntax ==
    <<"U","n","e","x","p","e","c","t","e","d"," ","t","o","k","e","n">>
ErrNoCandidates ==
    <<"C","a","n","n","o","t"," ","r","e","a","d"," ","p","r","o","p","e","r","t","i","e","s"," ","o","f"," ","u","n","d","e","f","i","n","e","d">>

\* ------------------------------------------------- JavaScript string helpers
\* \s of the regex and the characters String.prototype.trim strips.
WhiteSpace == {" ", "\t", "\n", "\r"}
\* The characters "." does not match (the regex has no s flag).
LineTerminators == {"\n", "\r"}

IsWs(c) == c \in WhiteSpace

\* Canonicalisation of the i flag, on the letters of the pattern.
Fold(c) ==
    CASE c = "A" -> "a"
      [] c = "B" -> "b"
      [] c = "O" -> "o"
      [] c = "R" -> "r"
      [] OTHER -> c

Min(a, b) == IF a < b THEN a ELSE b

MaxOf(S) == CHOOSE x \in S : \A y \in S : y <= x

MinOf(S) == CHOOSE x \in S : \A y \in S : x <= y

\* text.substring(n): the characters from 0-based index n on.
Substring(t, n) == SubSeq(t, Min(n, Len(t)) + 1, Len(t))

\* s.trim()
Trim(s) ==
    LET keep == {k \in 1..Len(s) : ~IsWs(s[k])}
    IN  IF keep = {} THEN <<>> ELSE SubSeq(s, MinOf(keep), MaxOf(keep))

\* ----------------------------------------------------------- the regex
\* /(?:^|\s*)A:\s*(.*?)(?:\s*OR\s*B:\s*(.*))?$/i, by backtracking priority.
\* Positions are 1-based; position i is "before character i", Len+1 the end.

\* End of the longest run of white space starting at position i.
RECURSIVE WsEnd(_, _)
WsEnd(t, i) ==
    IF i <= Len(t) /\ IsWs(t[i]) THEN WsEnd(t, i + 1) ELSE i

\* A literal of the pattern at position i, letters compared under the i flag.
Lit(t, i, lit) ==
    /\ i + Len(lit) - 1 <= Len(t)
    /\ \A k \in 1..Len(lit) : Fold(t[i + k - 1]) = Fold(lit[k])

NoMatch == [ok |-> FALSE]

\* Candidates are pairs <<position, outcome>>.  The outcome of the one at
\* the largest position, which a greedy quantifier settles on first; none
\* when there is no candidate.
Longest(cands, none) ==
    IF cands = {} THEN none
    ELSE (CHOOSE c \in cands : \A o \in cands : o[1] <= c[1])[2]

\* The candidate at the smallest position, which a lazy quantifier, or the
\* scan over start positions, settles on first.
Shortest(cands, none) ==
    IF cands = {} THEN none
    ELSE CHOOSE c \in cands : \A o \in cands : c[1] <= o[1]

\* (.*)$ at position v: the greedy run of non-line-terminators must reach
\* the end of input ($ without the m flag matches only there).
DotStarToEnd(t, v) == \A k \in v..Len(t) : t[k] \notin LineTerminators

\* \s*(.*)$ after "B:" ending before position u: greedy \s*, longest first.
\* The position capture 2 starts at, 0 when there is no match.
AfterB(t, u) ==
    Longest({<<v, v>> : v \in {w \in u..WsEnd(t, u) : DotStarToEnd(t, w)}}, 0)

\* \s*B:\s*(.*)$ after "OR" ending before position u.
AfterOr(t, u) ==
    Longest({c \in {<<q, AfterB(t, q + 2)>> :
                      q \in {r \in u..WsEnd(t, u) : Lit(t, r, <<"B", ":">>)}} :
                c[2] > 0}, 0)

\* \s*OR\s*B:\s*(.*)$ at position e: the position capture 2 starts at, 0
\* when the group does not match there.
GroupAt(t, e) ==
    Longest({c \in {<<p, AfterOr(t, p + 2)>> :
                      p \in {r \in e..WsEnd(t, e) : Lit(t, r, <<"O", "R">>)}} :
                c[2] > 0}, 0)

\* End of the longest run of non-line-terminators starting at position s.
RECURSIVE DotEnd(_, _)
DotEnd(t, s) ==
    IF s <= Len(t) /\ t[s] \notin LineTerminators THEN DotEnd(t, s + 1) ELSE s

\* (.*?)(?:group)?$ at position s: the lazy capture grows one character at
\* a time; at each length the optional group is tried first, then skipped
\* (and then $ needs the end of input).  <<e, v>>: capture 1 ends before e,
\* capture 2 starts at v (0: the group took no part); <<0, 0>>: no match.
LazyA(t, s) ==
    Shortest({c \in {<<e, GroupAt(t, e)>> : e \in s..DotEnd(t, s)} :
                 c[2] > 0 \/ c[1] = Len(t) + 1}, <<0, 0>>)

\* \s*(.*?)... after "A:" ending before position a: greedy \s*.
\* <<s, e, v>>: capture 1 starts at s; <<0, 0, 0>>: no match.
AfterA(t, a) ==
    Longest({<<c[1], <<c[1], c[2][1], c[2][2]>>>> :
                c \in {d \in {<<s, LazyA(t, s)>> : s \in a..WsEnd(t, a)} :
                          d[2][1] > 0}}, <<0, 0, 0>>)

\* Of the successful ways to place "A:" from start position p, the one the
\* alternation (?:^|\s*) settles on: ^ (possible at position 1 only, "A:"
\* following at once) before the greedy \s*.
CaretFirst(p, cands) ==
    IF p = 1 /\ \E c \in cands : c[1] = 1
    THEN Longest({c \in cands : c[1] = 1}, <<0, 0, 0>>)
    ELSE Longest(cands, <<0, 0, 0>>)

\* The whole pattern tried at start position p: (?:^|\s*) then "A:".
MatchAt(t, p) ==
    CaretFirst(p, {c \in {<<q, AfterA(t, q + 2)>> :
                            q \in {r \in p..WsEnd(t, p) : Lit(t, r, <<"A", ":">>)}} :
                      c[2][1] > 0})

\* The match array of a match found at start position first[1]: index is
\* 0-based; m0, m1 and m2 are match[0], match[1] and match[2], has2 = FALSE
\* standing for an undefined match[2].
MatchArray(t, first) ==
    IF first[1] = 0 THEN NoMatch
    ELSE [ok |-> TRUE, index |-> first[1] - 1,
          m0 |-> SubSeq(t, first[1], Len(t)),
          m1 |-> SubSeq(t, first[2][1], first[2][2] - 1),
          has2 |-> first[2][3] > 0,
          m2 |-> IF first[2][3] > 0 THEN SubSeq(t, first[2][3], Len(t))
                 ELSE <<>>]

\* text.match(regex): the leftmost start position at which the pattern
\* matches; null (NoMatch) when there is none.
RegexMatch(t) ==
    MatchArray(t, Shortest({c \in {<<p, MatchAt(t, p)>> : p \in 1..(Len(t) + 1)} :
                               c[2][1] > 0}, <<0, <<0, 0, 0>>>>))

\* ------------------------------------------------ free-text extraction
\* What console.warn records: which branch warned, and the raw text passed.
WarnPartial == "Partial match found for Gemini response. Option B inferred:"
WarnUnparsed == "Could not parse Gemini response into A and B options:"

Warning(msg, text) == <<[level |-> "warn", msg |-> msg, arg |-> text]>>

\* Lines 61-62: let optionA, optionB, before any branch assigns them.
InitialOptions ==
    [optionA |-> InitialOptionA, optionB |-> InitialOptionB,
     branch |-> "none", warned |-> <<>>]

\* OptionsFrom with line 78 losing its "|| literal" fallback.
OptionsFrom_NoFallback(text, match, remainingText) ==
    IF match.ok /\ match.m1 # <<>>
    THEN IF match.has2 /\ match.m2 # <<>>
         THEN [InitialOptions EXCEPT !.optionA = Trim(match.m1),
                                     !.optionB = Trim(match.m2),
                                     !.branch = "full"]
         ELSE [InitialOptions EXCEPT !.optionA = Trim(match.m1),
                                     !.optionB = remainingText,
                                     !.branch = "partial",
                                     !.warned = Warning(WarnPartial, text)]
    ELSE [InitialOptions EXCEPT !.optionA = DefaultOptionA,
                                !.optionB = DefaultOptionB,
                                !.branch = "unparsed",
                                !.warned = Warning(WarnUnparsed, text)]

\* OptionsFrom with lines 85-86 missing: the else branch only warns.
OptionsFrom_NoDefault(text, match, remainingText) ==
    IF match.ok /\ match.m1 # <<>>
    THEN IF match.has2 /\ match.m2 # <<>>
         THEN [InitialOptions EXCEPT !.optionA = Trim(match.m1),
                                     !.optionB = Trim(match.m2),
                                     !.branch = "full"]
         ELSE [InitialOptions EXCEPT !.optionA = Trim(match.m1),
                                     !.optionB = IF remainingText # <<>>
                                                 THEN remainingText
                                                 ELSE FallbackOptionB,
                                     !.branch = "partial",
                                     !.warned = Warning(WarnPartial, text)]
    ELSE [InitialOptions EXCEPT !.branch = "unparsed",
                                !.warned = Warning(WarnUnparsed, text)]

\* Lines 70-87 of the free-text variant, given the match array.
OptionsFrom(text, match, remainingText) ==
    IF match.ok /\ match.m1 # <<>>
    THEN IF match.has2 /\ match.m2 # <<>>
         THEN [InitialOptions EXCEPT !.optionA = Trim(match.m1),
                                     !.optionB = Trim(match.m2),
                                     !.branch = "full"]
         ELSE [InitialOptions EXCEPT !.optionA = Trim(match.m1),
                                     !.optionB = IF remainingText # <<>>
                                                 THEN remainingText
                                                 ELSE FallbackOptionB,
                                     !.branch = "partial",
                                     !.warned = Warning(WarnPartial, text)]
    ELSE [InitialOptions EXCEPT !.optionA = DefaultOptionA,
                                !.optionB = DefaultOptionB,
                                !.branch = "unparsed",
                                !.warned = Warning(WarnUnparsed, text)]

\* const remainingText = text.substring(match[0].length).trim()  (line 77)
RemainingText(text, match) ==
    IF match.ok THEN Trim(Substring(text, Len(match.m0))) ELSE <<>>

\* Lines 60-87 of the free-text variant: the pair extracted from the raw
\* model text, the branch taken and the warnings logged on the way.
WithMatch(text, match) ==
    OptionsFrom(text, match, RemainingText(text, match))

ExtractOptions(text) == WithMatch(text, RegexMatch(text))

\* ------------------------------------------------------- model replies
\* The pieces free-text replies are built from: the A marker in both letter
\* cases, the B marker, the separator with the B marker as the prompt asks
\* for them (" OR B: "), a lower-case " or ", a space, a line break and an
\* ordinary character (a letter, a digit or a markup character such as "*").
TextParts ==
    { <<"A", ":">>, <<"a", ":">>, <<"B", ":">>,
      <<" ", "O", "R", " ", "B", ":", " ">>,
      <<" ", "o", "r", " ">>, <<" ">>, <<"\n">>, <<"x">> }

RECURSIVE TextsUpTo(_)
\* Every concatenation of at most n parts.
TextsUpTo(n) ==
    IF n = 0 THEN {<<>>}
    ELSE LET shorter == TextsUpTo(n - 1)
         IN  shorter \cup {s \o p : s \in shorter, p \in TextParts}

\* The characters of an option text: an ordinary character, a markup
\* character, a space and a line break.
OptionChars == {"x", "*", " ", "\n"}

RECURSIVE OptionTextsUpTo(_)
\* Every option text of at most n characters.
OptionTextsUpTo(n) ==
    IF n = 0 THEN {<<>>}
    ELSE LET shorter == OptionTextsUpTo(n - 1)
         IN  shorter \cup {s \o <<c>> : s \in shorter, c \in OptionChars}

\* What may come before the A marker: nothing, a line, a word.
Preambles == {<<>>, <<"x", "\n">>, <<"x", " ">>}

\* The replies in the format the prompt of line 50 asks for,
\* [preamble] A: <x> OR B: <y>, with option texts of at most n characters.
FormattedTexts(n) ==
    {pre \o <<m, ":", " ">> \o x \o <<" ", "O", "R", " ", "B", ":", " ">> \o y :
        pre \in Preambles, m \in {"A", "a"},
        x \in OptionTextsUpTo(n), y \in OptionTextsUpTo(n)}

\* ---------------------------------------------------------------- JSON
\* A JSON text is a sequence of tokens; a string token carries its content.
Tok(kind, s) == [t |-> kind, s |-> s]
LBrace == Tok("{", <<>>)
RBrace == Tok("}", <<>>)
Colon == Tok(":", <<>>)
Comma == Tok(",", <<>>)
NullTok == Tok("null", <<>>)
StrTok(s) == Tok("str", s)

\* JavaScript values: strings, null, undefined and objects (members in
\* insertion order).
JsStr(s) == [t |-> "str", s |-> s, m |-> <<>>]
JsNull == [t |-> "null", s |-> <<>>, m |-> <<>>]
JsUndefined == [t |-> "undefined", s |-> <<>>, m |-> <<>>]
JsObj(members) == [t |-> "obj", s |-> <<>>, m |-> members]

\* obj[key] = v on a member list: an existing key keeps its place.
SetMember(members, key, v) ==
    IF \E k \in 1..Len(members) : members[k].k = key
    THEN [k \in 1..Len(members) |->
             IF members[k].k = key THEN [k |-> key, v |-> v] ELSE members[k]]
    ELSE Append(members, [k |-> key, v |-> v])

\* v.key: undefined unless v is an object holding the key.
Get(v, key) ==
    IF v.t = "obj" /\ \E k \in 1..Len(v.m) : v.m[k].k = key
    THEN v.m[CHOOSE k \in 1..Len(v.m) : v.m[k].k = key].v
    ELSE JsUndefined

\* Truthy testing "is defined" instead of ToBoolean: "" counts as set.
Truthy_Defined(v) == v.t \in {"str", "obj"}

\* ToBoolean(v)
Truthy(v) ==
    CASE v.t = "str" -> v.s # <<>>
      [] v.t = "obj" -> TRUE
      [] OTHER -> FALSE

ParseFail == [ok |-> FALSE]

RECURSIVE ParseValue(_, _)
RECURSIVE ParseMembers(_, _, _)
\* One JSON value starting at token i.
ParseValue(toks, i) ==
    IF i > Len(toks) THEN ParseFail
    ELSE CASE toks[i].t = "str" ->
                  [ok |-> TRUE, v |-> JsStr(toks[i].s), next |-> i + 1]
           [] toks[i].t = "null" ->
                  [ok |-> TRUE, v |-> JsNull, next |-> i + 1]
           [] toks[i].t = "{" ->
                  IF i + 1 <= Len(toks) /\ toks[i + 1].t = "}"
                  THEN [ok |-> TRUE, v |-> JsObj(<<>>), next |-> i + 2]
                  ELSE ParseMembers(toks, i + 1, <<>>)
           [] OTHER -> ParseFail

\* The members of an object from token i on, up to its closing brace.
ParseMembers(toks, i, acc) ==
    IF i + 1 <= Len(toks) /\ toks[i].t = "str" /\ toks[i + 1].t = ":"
    THEN LET r == ParseValue(toks, i + 2)
         IN  IF ~r.ok THEN ParseFail
             ELSE LET acc2 == SetMember(acc, toks[i].s, r.v)
                  IN  IF r.next <= Len(toks) /\ toks[r.next].t = ","
                      THEN ParseMembers(toks, r.next + 1, acc2)
                      ELSE IF r.next <= Len(toks) /\ toks[r.next].t = "}"
                      THEN [ok |-> TRUE, v |-> JsObj(acc2),
                            next |-> r.next + 1]
                      ELSE ParseFail
    ELSE ParseFail

\* JSON.parse(toks): ok = FALSE stands for the SyntaxError it throws.
JSONParse(toks) ==
    LET r == ParseValue(toks, 1)
    IN  IF r.ok /\ r.next = Len(toks) + 1
        THEN [ok |-> TRUE, v |-> r.v]
        ELSE ParseFail

RECURSIVE JSONStringify(_)
RECURSIVE StringifyMembers(_, _)
\* JSON.stringify(v); a member whose value is undefined is left out.
JSONStringify(v) ==
    CASE v.t = "str" -> <<StrTok(v.s)>>
      [] v.t = "obj" -> <<LBrace>> \o StringifyMembers(v.m, TRUE) \o <<RBrace>>
      [] OTHER -> <<NullTok>>

StringifyMembers(members, first) ==
    IF members = <<>> THEN <<>>
    ELSE LET h == Head(members)
         IN  IF h.v.t = "undefined"
             THEN StringifyMembers(Tail(members), first)
             ELSE (IF first THEN <<>> ELSE <<Comma>>)
                  \o <<StrTok(h.k), Colon>> \o JSONStringify(h.v)
                  \o StringifyMembers(Tail(members), FALSE)

\* { optionA, optionB }
Pair(a, b) ==
    JsObj(<<[k |-> KeyOptionA, v |-> JsStr(a)], [k |-> KeyOptionB, v |-> JsStr(b)]>>)

\* ------------------------------------------------------ bounded inputs
Variants == {"free_text", "structured"}

Methods == {"POST", "GET"}

\* event.body: malformed JSON, an object without category, an object with
\* a category, an object with an empty category, and the JSON text null.
Bodies ==
    { <<LBrace>>,
      <<LBrace, RBrace>>,
      <<LBrace, StrTok(KeyCategory), Colon, StrTok(Food), RBrace>>,
      <<LBrace, StrTok(KeyCategory), Colon, StrTok(<<>>), RBrace>>,
      <<NullTok>> }

\* process.env.GEMINI_API_KEY: unset, set to the empty string, set.
EnvKeys == {JsUndefined, JsStr(<<>>), JsStr(<<"k">>)}

MemberTokens(key, val) == <<StrTok(key), Colon, StrTok(val)>>

\* The pieces structured replies are built from.
JsonParts ==
    { <<LBrace>>, <<RBrace>>, <<Comma>>, <<NullTok>>, <<StrTok(<<"x">>)>>,
      MemberTokens(KeyOptionA, <<"x">>), MemberTokens(KeyOptionA, <<>>),
      MemberTokens(KeyOptionB, <<"y">>) }

RECURSIVE JsonTextsUpTo(_)
JsonTextsUpTo(n) ==
    IF n = 0 THEN {<<>>}
    ELSE LET shorter == JsonTextsUpTo(n - 1)
         IN  shorter \cup {s \o p : s \in shorter, p \in JsonParts}

\* Replies that honour the responseSchema of lines 163-170: an object with
\* the two string properties, in the declared order.
SchemaStrings == {<<>>, <<"x">>, <<"y">>}

SchemaReplies ==
    { <<LBrace>> \o MemberTokens(KeyOptionA, a) \o <<Comma>>
        \o MemberTokens(KeyOptionB, b) \o <<RBrace>> :
      a \in SchemaStrings, b \in SchemaStrings }

\* How the awaited generateContent call can settle.  kind "reject": the
\* promise rejects (network failure, non-success status); "noEnvelope": it
\* resolves with a reply that has no candidate; "text": it resolves with
\* output text (characters in free-text mode, JSON tokens in structured mode).
Reply(kind, text, json, err) ==
    [kind |-> kind, text |-> text, json |-> json, err |-> err]

NoReply == Reply("none", <<>>, <<>>, <<>>)

FailedReplies ==
    {Reply("reject", <<>>, <<>>, ErrFetchFailed),
     Reply("noEnvelope", <<>>, <<>>, <<>>)}

FreeTextReplies(n) ==
    {Reply("text", t, <<>>, <<>>) : t \in TextsUpTo(n)}

FormattedReplies(n) ==
    {Reply("text", t, <<>>, <<>>) : t \in FormattedTexts(n)}

StructuredReplies(n) ==
    {Reply("text", <<>>, j, <<>>) : j \in JsonTextsUpTo(n) \cup SchemaReplies}

\* ----------------------------------------------------------------- state
VARIABLES
    variant,     \* which exports.handler is deployed
    httpMethod,  \* event.httpMethod
    eventBody,   \* event.body
    envKey,      \* process.env.GEMINI_API_KEY
    pc,          \* where the invocation stands
    category,    \* let category
    bodyParsed,  \* JSON.parse(event.body) has run
    keyRead,     \* process.env.GEMINI_API_KEY has been read
    calls,       \* number of model.generateContent calls made
    prompt,      \* the prompt of the last call
    reply,       \* how the awaited call settled
    response,    \* the value the handler returned
    log          \* console.error / console.warn entries, in order

\* A second invocation of the same handler in the same process.  The
\* variables above are the locals of the invocation that holds the thread.
VARIABLES
    other,        \* the locals of the invocation that does not hold the thread
    serviceReply, \* how the service will settle this invocation's call
    overlapped    \* both invocations have been in flight at the same time

\* The React component App that calls the handler (or, in src/App.js, the
\* generation service itself).
VARIABLES
    app,          \* which App is mounted
    uiCategory,   \* const [category, setCategory]
    question,     \* const [question, setQuestion]
    isLoading,    \* const [isLoading, setIsLoading]
    error,        \* const [error, setError]
    runs,         \* the generateQuestion runs that have not returned yet
    questionFor   \* the category the request of the shown question carried

ui == <<app, uiCategory, question, isLoading, error, runs, questionFor>>

vars == <<variant, httpMethod, eventBody, envKey, pc, category, bodyParsed,
          keyRead, calls, prompt, reply, response, log,
          other, serviceReply, overlapped, ui>>

\* What a step of one invocation of the handler cannot touch.
outside == <<other, serviceReply, overlapped, ui>>

\* The statusCode of each kind of response (lines 12/115, 37/139, 98/187
\* and 91/180).
StatusMethodNotAllowed == 405
StatusConfigurationError == 500
StatusGenerationFailed == 500
StatusOK == 200

NoResponse == [statusCode |-> 0, jsonHeader |-> FALSE, body |-> <<>>]

NoPrompt == [format |-> "none", category |-> <<>>]

Respond(status, jsonHeader, value) ==
    [statusCode |-> status, jsonHeader |-> jsonHeader,
     body |-> JSONStringify(value)]

LogEntry(level, msg, arg) == [level |-> level, msg |-> msg, arg |-> arg]

\* One member object { key: text }
Obj1(k1, v1) == JsObj(<<[k |-> k1, v |-> JsStr(v1)]>>)

\* { key1: text1, key2: text2 }
Obj2(k1, v1, k2, v2) ==
    JsObj(<<[k |-> k1, v |-> JsStr(v1)], [k |-> k2, v |-> JsStr(v2)]>>)

\* The state of an invocation that has just been entered.
Entered ==
    /\ pc = "start"
    /\ category = General
    /\ bodyParsed = FALSE
    /\ keyRead = FALSE
    /\ calls = 0
    /\ prompt = NoPrompt
    /\ reply = NoReply
    /\ response = NoResponse
    /\ log = <<>>

\* The locals of an invocation, as one record.
Frame(method, body, at, cat, parsed, read, made, prm, rep, resp, lg, svc) ==
    [httpMethod |-> method, eventBody |-> body, pc |-> at, category |-> cat,
     bodyParsed |-> parsed, keyRead |-> read, calls |-> made, prompt |-> prm,
     reply |-> rep, response |-> resp, log |-> lg, serviceReply |-> svc]

\* An invocation with request (method, body) that has not run yet.
EnteredFrame(method, body, at, svc) ==
    Frame(method, body, at, General, FALSE, FALSE, 0, NoPrompt, NoReply,
          NoResponse, <<>>, svc)

\* There is no second invocation.
Alone ==
    /\ other = EnteredFrame("POST", <<>>, "absent", NoReply)
    /\ serviceReply = NoReply
    /\ overlapped = FALSE

\* The App as it is mounted (lines 8-11 of the components): the default
\* category, no question, not loading, no error.
Mounted ==
    /\ uiCategory = General
    /\ question = JsNull
    /\ isLoading = FALSE
    /\ error = <<>>
    /\ runs = <<>>
    /\ questionFor = General

\* The handler on its own: what the page shows plays no part.
NoPage == app = "function" /\ Mounted

Init ==
    /\ Alone
    /\ NoPage
    /\ variant \in Variants
    /\ httpMethod \in Methods
    /\ eventBody \in Bodies
    /\ envKey \in EnvKeys
    /\ Entered

\* ------------------------------------------------------------- actions
\* MethodCheck with the return of line 11 missing: the rejection is built
\* but the handler carries on.
MethodCheck_NoReturn ==
    /\ pc = "start"
    /\ IF httpMethod # "POST"
       THEN response' = Respond(StatusMethodNotAllowed, FALSE,
                                 Obj1(KeyMessage, MsgMethodNotAllowed))
       ELSE UNCHANGED response
    /\ pc' = "parseBody"
    /\ UNCHANGED outside
    /\ UNCHANGED <<variant, httpMethod, eventBody, envKey, category,
                   bodyParsed, keyRead, calls, prompt, reply, log>>

\* Lines 10-15 / 113-118: only POST is served.
MethodCheck ==
    /\ pc = "start"
    /\ IF httpMethod # "POST"
       THEN /\ response' = Respond(StatusMethodNotAllowed, FALSE,
                                 Obj1(KeyMessage, MsgMethodNotAllowed))
            /\ pc' = "done"
       ELSE /\ pc' = "parseBody"
            /\ UNCHANGED response
    /\ UNCHANGED outside
    /\ UNCHANGED <<variant, httpMethod, eventBody, envKey, category,
                   bodyParsed, keyRead, calls, prompt, reply, log>>

\* The category lines 17-28 / 120-131 leave in the local variable.
CategoryOf(body) ==
    LET parsed == JSONParse(body)
    IN  IF parsed.ok /\ Truthy(parsed.v) /\ Truthy(Get(parsed.v, KeyCategory))
        THEN Get(parsed.v, KeyCategory).s
        ELSE General

\* Lines 17-28 / 120-131: the category of the request body, "General" when
\* there is none; a body that does not parse is logged and tolerated.
ParseBody ==
    /\ pc = "parseBody"
    /\ bodyParsed' = TRUE
    /\ category' = CategoryOf(eventBody)
    /\ log' = IF JSONParse(eventBody).ok THEN log
              ELSE Append(log, LogEntry("error", "Failed to parse request body:", ErrSyntax))
    /\ pc' = "checkKey"
    /\ UNCHANGED outside
    /\ UNCHANGED <<variant, httpMethod, eventBody, envKey, keyRead, calls,
                   prompt, reply, response>>

\* Lines 49-52 / 152: the prompt, with the category interpolated.
BuildPrompt(v, cat) == [format |-> v, category |-> cat]

\* Lines 31-56 / 135-172: without a key the handler answers at once; with
\* one it builds the prompt and starts the one generateContent call.
CheckKey ==
    /\ pc = "checkKey"
    /\ keyRead' = TRUE
    /\ IF ~Truthy(envKey)
       THEN /\ log' = Append(log, LogEntry("error",
                        "GEMINI_API_KEY is not set in Netlify environment variables.", <<>>))
            /\ response' = Respond(StatusConfigurationError, FALSE,
                              Obj1(KeyMessage, IF variant = "free_text"
                                               THEN MsgKeyNotSet ELSE MsgKeyMissing))
            /\ pc' = "done"
            /\ UNCHANGED <<calls, prompt>>
       ELSE /\ prompt' = BuildPrompt(variant, category)
            /\ calls' = calls + 1
            /\ pc' = "awaitGenerate"
            /\ UNCHANGED <<log, response>>
    /\ UNCHANGED outside
    /\ UNCHANGED <<variant, httpMethod, eventBody, envKey, category,
                   bodyParsed, reply>>

\* The awaited call settles with one of the replies of R.
SettleGenerate(R) ==
    /\ pc = "awaitGenerate"
    /\ \E r \in R : reply' = r
    /\ pc' = "resumed"
    /\ UNCHANGED outside
    /\ UNCHANGED <<variant, httpMethod, eventBody, envKey, category,
                   bodyParsed, keyRead, calls, prompt, response, log>>

\* Lines 95-100 / 185-190: the catch block of the generation try.
GenerationFailed(detailsKey, logMsg, err) ==
    /\ log' = Append(log, LogEntry("error", logMsg, err))
    /\ response' = Respond(StatusGenerationFailed, FALSE,
                      Obj2(KeyMessage, MsgGenerationFailed, detailsKey, err))

\* Lines 60-94: extraction from the output text and the success response.
FreeTextSuccess(text) ==
    LET got == ExtractOptions(text)
    IN  /\ log' = log \o got.warned
        /\ response' = Respond(StatusOK, TRUE, Pair(got.optionA, got.optionB))

\* Lines 56-101 of the free-text variant, from the point where the awaited
\* call has settled.  response.text() of a reply without candidates either
\* throws (the prompt was blocked) or returns the empty string.
HandleFreeText ==
    /\ pc = "resumed"
    /\ variant = "free_text"
    /\ CASE reply.kind = "reject" ->
                GenerationFailed(KeyDetails, "Error calling Gemini API:", reply.err)
         [] reply.kind = "noEnvelope" ->
                \E blocked \in BOOLEAN :
                    IF blocked
                    THEN GenerationFailed(KeyDetails, "Error calling Gemini API:", ErrBlocked)
                    ELSE FreeTextSuccess(<<>>)
         [] OTHER -> FreeTextSuccess(reply.text)
    /\ pc' = "done"
    /\ UNCHANGED outside
    /\ UNCHANGED <<variant, httpMethod, eventBody, envKey, category,
                   bodyParsed, keyRead, calls, prompt, reply>>

\* Lines 174-183: the reply text parsed and returned as it is.
StructuredSuccess(parsedQuestion) ==
    /\ log' = log
    /\ response' = Respond(StatusOK, TRUE, parsedQuestion)

\* Lines 156-191 of the structured variant, from the point where the
\* awaited call has settled.
HandleStructured ==
    /\ pc = "resumed"
    /\ variant = "structured"
    /\ CASE reply.kind = "reject" ->
                GenerationFailed(KeyError,
                    "Error calling Gemini API from Netlify Function:", reply.err)
         [] reply.kind = "noEnvelope" ->
                GenerationFailed(KeyError,
                    "Error calling Gemini API from Netlify Function:", ErrNoCandidates)
         [] OTHER ->
                IF JSONParse(reply.json).ok
                THEN StructuredSuccess(JSONParse(reply.json).v)
                ELSE GenerationFailed(KeyError,
                    "Error calling Gemini API from Netlify Function:", ErrSyntax)
    /\ pc' = "done"
    /\ UNCHANGED outside
    /\ UNCHANGED <<variant, httpMethod, eventBody, envKey, category,
                   bodyParsed, keyRead, calls, prompt, reply>>

\* The replies the generation service can give to the deployed variant.
RepliesFor(v) ==
    FailedReplies \cup
        (IF v = "free_text" THEN FreeTextReplies(MaxReplyParts)
         ELSE StructuredReplies(MaxJsonParts))

Next ==
    \/ MethodCheck
    \/ ParseBody
    \/ CheckKey
    \/ SettleGenerate(RepliesFor(variant))
    \/ HandleFreeText
    \/ HandleStructured

\* One invocation of the deployed handler, from its entry to its response.
Spec == Init /\ [][Next]_vars

\* The free-text variant at line 58, for every output text of at most
\* MaxParts parts and every formatted one: a POST with the default category was accepted, the key
\* was set and the one generation call has resolved with that text.
InitExtract ==
    /\ Alone
    /\ NoPage
    /\ variant = "free_text"
    /\ httpMethod = "POST"
    /\ eventBody = <<LBrace, RBrace>>
    /\ envKey = JsStr(<<"k">>)
    /\ pc = "resumed"
    /\ category = General
    /\ bodyParsed = TRUE
    /\ keyRead = TRUE
    /\ calls = 1
    /\ prompt = BuildPrompt("free_text", General)
    /\ reply \in FreeTextReplies(MaxParts) \cup FormattedReplies(MaxOptionLen)
    /\ response = NoResponse
    /\ log = <<>>

NextExtract == HandleFreeText

SpecExtract == InitExtract /\ [][NextExtract]_vars

\* ------------------------------------------------- two invocations
\* The requests and replies of two concurrent invocations.
PairTexts ==
    { <<"x">>,
      <<"A", ":", "x">>,
      <<"A", ":", "x", " ", "O", "R", " ", "B", ":", " ", "x">> }

PairJsonTexts ==
    { <<LBrace>>,
      <<NullTok>>,
      <<LBrace>> \o MemberTokens(KeyOptionA, <<"x">>) \o <<Comma>>
          \o MemberTokens(KeyOptionB, <<"y">>) \o <<RBrace>> }

PairReplies(v) ==
    FailedReplies \cup
        (IF v = "free_text"
         THEN {Reply("text", t, <<>>, <<>>) : t \in PairTexts}
         ELSE {Reply("text", <<>>, j, <<>>) : j \in PairJsonTexts})

\* The invocation that holds the thread, as a record.
Running ==
    Frame(httpMethod, eventBody, pc, category, bodyParsed, keyRead, calls,
          prompt, reply, response, log, serviceReply)

\* Where an invocation can be while another one runs: not yet started,
\* suspended at the await of line 56 / 156 (before or after its call has
\* settled), or returned.
Suspended == {"start", "awaitGenerate", "resumed", "done"}

InFlight == {"awaitGenerate", "resumed"}

\* Switch with the result of the awaited call kept in one place for both
\* invocations instead of in a local of each.
Switch_SharedReply ==
    /\ other.pc \in Suspended
    /\ pc \in Suspended
    /\ other' = Running
    /\ httpMethod' = other.httpMethod
    /\ eventBody' = other.eventBody
    /\ pc' = other.pc
    /\ category' = other.category
    /\ bodyParsed' = other.bodyParsed
    /\ keyRead' = other.keyRead
    /\ calls' = other.calls
    /\ prompt' = other.prompt
    /\ response' = other.response
    /\ log' = other.log
    /\ serviceReply' = other.serviceReply
    /\ overlapped' = (overlapped \/ (pc \in InFlight /\ other.pc \in InFlight))
    /\ UNCHANGED <<variant, envKey, reply, ui>>

\* The event loop gives the thread to the other invocation: this one keeps
\* its locals (every variable of lines 17-94 / 120-176 is declared inside
\* the handler), the process environment is common to both.
Switch ==
    /\ other.pc \in Suspended
    /\ pc \in Suspended
    /\ other' = Running
    /\ httpMethod' = other.httpMethod
    /\ eventBody' = other.eventBody
    /\ pc' = other.pc
    /\ category' = other.category
    /\ bodyParsed' = other.bodyParsed
    /\ keyRead' = other.keyRead
    /\ calls' = other.calls
    /\ prompt' = other.prompt
    /\ reply' = other.reply
    /\ response' = other.response
    /\ log' = other.log
    /\ serviceReply' = other.serviceReply
    /\ overlapped' = (overlapped \/ (pc \in InFlight /\ other.pc \in InFlight))
    /\ UNCHANGED <<variant, envKey, ui>>

InitPair ==
    /\ NoPage
    /\ variant \in Variants
    /\ envKey \in EnvKeys
    /\ httpMethod \in Methods
    /\ eventBody \in Bodies
    /\ serviceReply \in PairReplies(variant)
    /\ Entered
    /\ other \in {EnteredFrame(m, b, "start", r) :
                    m \in Methods, b \in Bodies, r \in PairReplies(variant)}
    /\ overlapped = FALSE

NextPair ==
    \/ MethodCheck
    \/ ParseBody
    \/ CheckKey
    \/ SettleGenerate({serviceReply})
    \/ HandleFreeText
    \/ HandleStructured
    \/ Switch

\* Two invocations of the deployed handler in one process, interleaved at
\* their suspension points.
SpecPair == InitPair /\ [][NextPair]_vars

\* ------------------------------------------------------------- the page
\* The texts of the components, as characters.
Tech ==
    <<"T","e","c","h">>
UiFailedPrefix ==
    <<"F","a","i","l","e","d"," ","t","o"," ","g","e","n","e","r","a","t","e"," ","q","u","e","s","t","i","o","n",":"," ">>
UiFailedSuffix ==
    <<"."," ","P","l","e","a","s","e"," ","t","r","y"," ","a","g","a","i","n",".">>
UiFunctionError ==
    <<"F","u","n","c","t","i","o","n"," ","e","r","r","o","r",":"," ">>
UiApiError ==
    <<"A","P","I"," ","e","r","r","o","r",":"," ">>
UiDash ==
    <<" ","-"," ">>
UiUnknownFunctionError ==
    <<"U","n","k","n","o","w","n"," ","e","r","r","o","r"," ","f","r","o","m"," ","N","e","t","l","i","f","y"," ","F","u","n","c","t","i","o","n">>
UiUnknownError ==
    <<"U","n","k","n","o","w","n"," ","e","r","r","o","r">>
UiInvalidFormat ==
    <<"N","e","t","l","i","f","y"," ","F","u","n","c","t","i","o","n"," ","d","i","d"," ","n","o","t"," ","r","e","t","u","r","n"," ","a"," ","v","a","l","i","d"," ","q","u","e","s","t","i","o","n"," ","f","o","r","m","a","t",".">>
UiInvalidJson ==
    <<"F","a","i","l","e","d"," ","t","o"," ","p","a","r","s","e"," ","A","I"," ","r","e","s","p","o","n","s","e",":"," ","I","n","v","a","l","i","d"," ","J","S","O","N"," ","f","o","r","m","a","t",".">>
UiMissingKeys ==
    <<"A","I"," ","r","e","s","p","o","n","s","e"," ","m","i","s","s","i","n","g"," ","'","o","p","t","i","o","n","A","'"," ","o","r"," ","'","o","p","t","i","o","n","B","'"," ","k","e","y","s",".">>
UiNoQuestion ==
    <<"A","I"," ","d","i","d"," ","n","o","t"," ","r","e","t","u","r","n"," ","a"," ","v","a","l","i","d"," ","q","u","e","s","t","i","o","n",".">>
UiFailedToFetch ==
    <<"F","a","i","l","e","d"," ","t","o"," ","f","e","t","c","h">>
UiTypeError ==
    <<"C","a","n","n","o","t"," ","r","e","a","d"," ","p","r","o","p","e","r","t","i","e","s"," ","o","f"," ","n","u","l","l">>
UiObjectText ==
    <<"[","o","b","j","e","c","t"," ","O","b","j","e","c","t","]">>

\* String(n) of a status code.
Digits == <<"0", "1", "2", "3", "4", "5", "6", "7", "8", "9">>

RECURSIVE Decimal(_)
Decimal(n) ==
    IF n < 10 THEN <<Digits[n + 1]>>
    ELSE Decimal(n \div 10) \o <<Digits[(n % 10) + 1]>>

\* The two kinds of App: the ones that call the Netlify function and the
\* one of src/App.js that calls the generation service itself.
Apps == {"function", "direct"}

\* Some of the categories of lines 14-29.
Categories == {General, Food, Tech}

\* Bodies a response can carry besides the structured texts: the failure
\* bodies of the function and of the service.
ErrorBodies ==
    { <<LBrace>> \o MemberTokens(KeyMessage, <<"m">>) \o <<RBrace>>,
      <<LBrace>> \o MemberTokens(KeyMessage, <<>>) \o <<RBrace>>,
      <<LBrace, StrTok(KeyError), Colon, LBrace>>
          \o MemberTokens(KeyMessage, <<"m">>) \o <<RBrace, RBrace>>,
      <<LBrace, StrTok(KeyError), Colon, LBrace, RBrace, RBrace>>,
      <<LBrace, StrTok(KeyError), Colon, NullTok, RBrace>> }

\* Objects with one option only.
PartialBodies ==
    { <<LBrace>> \o MemberTokens(KeyOptionA, <<"x">>) \o <<RBrace>>,
      <<LBrace>> \o MemberTokens(KeyOptionB, <<"y">>) \o <<RBrace>> }

PageBodies(n) ==
    JsonTextsUpTo(n) \cup SchemaReplies \cup PartialBodies \cup ErrorBodies

\* response.status values: one inside and two outside 200-299.
PageStatuses == {StatusOK, StatusMethodNotAllowed, StatusGenerationFailed}

\* How far the content envelope of lines 95-97 of src/App.js goes in a
\* result: not an object, no candidates, an empty candidates array, a
\* candidate without content, content without parts, an empty parts array,
\* a first part without text, a first part with text.
EnvelopeShapes ==
    {"null", "noCandidates", "emptyCandidates", "noContent", "noParts",
     "emptyParts", "noText", "text"}

\* How the awaited fetch can settle.  kind "reject": the promise rejects;
\* "response": it resolves with a status and a body.  The body of a
\* successful response of the service is given by the shape of its
\* envelope and the text of its first part.
Fetched(kind, status, body, envelope, text) ==
    [kind |-> kind, status |-> status, body |-> body,
     envelope |-> envelope, text |-> text]

NoFetch == Fetched("none", 0, <<>>, "none", <<>>)

FetchOutcomes(a, n) ==
    {Fetched("reject", 0, <<>>, "none", <<>>)}
    \cup {Fetched("response", st, b, "none", <<>>) :
             st \in (IF a = "function" THEN PageStatuses
                     ELSE PageStatuses \ {StatusOK}),
             b \in PageBodies(n)}
    \cup (IF a = "function" THEN {}
          ELSE {Fetched("response", StatusOK, <<>>, e, <<>>) :
                   e \in EnvelopeShapes \ {"text"}}
               \cup {Fetched("response", StatusOK, <<>>, "text", t) :
                        t \in PageBodies(n)})

\* response.ok
ResponseOk(status) == status >= 200 /\ status <= 299

\* What the try block of generateQuestion comes to: a question to set, or
\* an error thrown with a message.
Accepted(q) == [ok |-> TRUE, question |-> q, msg |-> <<>>]

Thrown(msg) == [ok |-> FALSE, question |-> JsNull, msg |-> msg]

\* IsValidQuestion accepting a result that has optionA only.
IsValidQuestion_OnlyA(result) == Truthy(Get(result, KeyOptionA))

\* result.optionA && result.optionB  (line 66; line 110 of src/App.js)
IsValidQuestion(result) ==
    Truthy(Get(result, KeyOptionA)) /\ Truthy(Get(result, KeyOptionB))

\* Lines 66-70 / 110-115 on a value that was parsed: reading a property of
\* null throws, a valid question is set, anything else is thrown as invalid.
Validate(result, invalidMsg) ==
    IF result.t = "null" THEN Thrown(UiTypeError)
    ELSE IF IsValidQuestion(result) THEN Accepted(result)
    ELSE Thrown(invalidMsg)

\* errorData.message || fallback
MessageOr(holder, fallback) ==
    CASE Get(holder, KeyMessage).t = "obj" -> UiObjectText
      [] Truthy(Get(holder, KeyMessage)) -> Get(holder, KeyMessage).s
      [] OTHER -> fallback

\* Lines 58-70 of the App that calls the function, given the status and
\* the parsed body.
FunctionSettled(status, parsed) ==
    IF ~parsed.ok THEN Thrown(ErrSyntax)
    ELSE IF ~ResponseOk(status)
    THEN IF parsed.v.t = "null" THEN Thrown(UiTypeError)
         ELSE Thrown(UiFunctionError \o Decimal(status) \o UiDash
                     \o MessageOr(parsed.v, UiUnknownFunctionError))
    ELSE Validate(parsed.v, UiInvalidFormat)

\* Lines 85-89 of src/App.js, given the status and the parsed body.
DirectFailed(status, parsed) ==
    IF ~parsed.ok THEN Thrown(ErrSyntax)
    ELSE IF parsed.v.t = "null" \/ Get(parsed.v, KeyError).t \in {"undefined", "null"}
    THEN Thrown(UiTypeError)
    ELSE Thrown(UiApiError \o Decimal(status) \o UiDash
                \o MessageOr(Get(parsed.v, KeyError), UiUnknownError))

\* Lines 99-115 of src/App.js, given JSON.parse(jsonString).
DirectParsed(parsed) ==
    IF ~parsed.ok THEN Thrown(UiInvalidJson)
    ELSE Validate(parsed.v, UiMissingKeys)

\* Lines 85-119 of src/App.js for a response f.
DirectSettled(f) ==
    IF ~ResponseOk(f.status) THEN DirectFailed(f.status, JSONParse(f.body))
    ELSE CASE f.envelope = "null" -> Thrown(UiTypeError)
           [] f.envelope = "text" -> DirectParsed(JSONParse(f.text))
           [] f.envelope = "noText" -> Thrown(UiInvalidJson)
           [] OTHER -> Thrown(UiNoQuestion)

\* What the try block comes to once the body of response f has been read.
Settled(a, f) ==
    IF a = "function" THEN FunctionSettled(f.status, JSONParse(f.body))
    ELSE DirectSettled(f)

\* One run of generateQuestion that has not returned: where it waits, the
\* category its request carries, the response it received.
Run(at, cat, f) == [pc |-> at, category |-> cat, fetched |-> f]

Remove(seq, i) == SubSeq(seq, 1, i - 1) \o SubSeq(seq, i + 1, Len(seq))

\* `Failed to generate question: ${err.message}. Please try again.`
ErrorShown(msg) == UiFailedPrefix \o msg \o UiFailedSuffix

\* What no step of the page touches.
handlerVars == <<variant, httpMethod, eventBody, envKey, pc, category,
                 bodyParsed, keyRead, calls, prompt, reply, response, log,
                 other, serviceReply, overlapped>>

\* HandleCategoryChange forgetting to clear the question.
HandleCategoryChange_KeepQuestion(selectedCategory) ==
    /\ ~isLoading
    /\ uiCategory' = selectedCategory
    /\ error' = <<>>
    /\ UNCHANGED <<app, question, isLoading, runs, questionFor>>
    /\ UNCHANGED handlerVars

\* Lines 35-39, behind a category button, which is disabled while
\* isLoading (line 100).
HandleCategoryChange(selectedCategory) ==
    /\ ~isLoading
    /\ uiCategory' = selectedCategory
    /\ question' = JsNull
    /\ error' = <<>>
    /\ UNCHANGED <<app, isLoading, runs, questionFor>>
    /\ UNCHANGED handlerVars

\* Lines 44-55, behind the generate button, which is disabled while
\* isLoading (line 144): the state is reset and the request, carrying the
\* selected category, is sent.
GenerateClick ==
    /\ ~isLoading
    /\ isLoading' = TRUE
    /\ error' = <<>>
    /\ question' = JsNull
    /\ runs' = Append(runs, Run("awaitFetch", uiCategory, NoFetch))
    /\ UNCHANGED <<app, uiCategory, questionFor>>
    /\ UNCHANGED handlerVars

\* Return with the finally block run on the success path only.
Return_NoFinally(i, outcome) ==
    /\ IF outcome.ok
       THEN /\ question' = outcome.question
            /\ questionFor' = runs[i].category
            /\ isLoading' = FALSE
            /\ UNCHANGED error
       ELSE /\ error' = ErrorShown(outcome.msg)
            /\ UNCHANGED <<question, questionFor, isLoading>>
    /\ runs' = Remove(runs, i)
    /\ UNCHANGED <<app, uiCategory>>
    /\ UNCHANGED handlerVars

\* Lines 66-77: run i leaves its try block, with a question that is set or
\* with an error that the catch block shows; finally, isLoading is reset.
Return(i, outcome) ==
    /\ IF outcome.ok
       THEN /\ question' = outcome.question
            /\ questionFor' = runs[i].category
            /\ UNCHANGED error
       ELSE /\ error' = ErrorShown(outcome.msg)
            /\ UNCHANGED <<question, questionFor>>
    /\ isLoading' = FALSE
    /\ runs' = Remove(runs, i)
    /\ UNCHANGED <<app, uiCategory>>
    /\ UNCHANGED handlerVars

\* Lines 51-55: the awaited fetch of run i settles with one of F.
FetchSettles(i, F) ==
    /\ runs[i].pc = "awaitFetch"
    /\ \E f \in F :
          IF f.kind = "reject"
          THEN Return(i, Thrown(UiFailedToFetch))
          ELSE /\ runs' = [runs EXCEPT ![i] = Run("awaitJson", runs[i].category, f)]
               /\ UNCHANGED <<app, uiCategory, question, isLoading, error,
                              questionFor>>
               /\ UNCHANGED handlerVars

\* Lines 58-77: the awaited response.json() of run i settles and the run
\* goes on to its end.
ReadBody(i) ==
    /\ runs[i].pc = "awaitJson"
    /\ Return(i, Settled(app, runs[i].fetched))

\* No invocation of the handler is modelled next to the page.
NoRequest ==
    /\ variant = "free_text"
    /\ httpMethod = "POST"
    /\ eventBody = <<>>
    /\ envKey = JsUndefined
    /\ Entered

InitPage ==
    /\ app \in Apps
    /\ Mounted
    /\ NoRequest
    /\ Alone

\* The ways the fetch of each App can settle, for bodies of at most
\* MaxPageParts parts.
FunctionOutcomes == FetchOutcomes("function", MaxPageParts)

DirectOutcomes == FetchOutcomes("direct", MaxPageParts)

OutcomesFor(a) == IF a = "function" THEN FunctionOutcomes ELSE DirectOutcomes

\* A run that waits moves on.
Settling ==
    \E i \in 1..Len(runs) : FetchSettles(i, OutcomesFor(app)) \/ ReadBody(i)

NextPage ==
    \/ \E c \in Categories : HandleCategoryChange(c)
    \/ GenerateClick
    \/ \E i \in 1..Len(runs) : FetchSettles(i, OutcomesFor(app))
    \/ \E i \in 1..Len(runs) : ReadBody(i)

\* The page, from its mounting on, under any clicks and any responses.
SpecPage == InitPage /\ [][NextPage]_vars

\* The page when every request settles: a promise that settles has its
\* continuation run by the event loop.
SpecPageLive == SpecPage /\ WF_vars(Settling)

\* ------------------------------------------------------------- claims
Done == pc = "done"

\* What the caller reads from the response body (response.json()).
ResponseValue == JSONParse(response.body)

IsNonEmptyStr(v) == v.t = "str" /\ v.s # <<>>

\* A body that is a complete pair.
IsCompletePair(r) ==
    /\ r.ok
    /\ r.v.t = "obj"
    /\ IsNonEmptyStr(Get(r.v, KeyOptionA))
    /\ IsNonEmptyStr(Get(r.v, KeyOptionB))

\* A body that is exactly { optionA: a, optionB: b }.
IsPairOf(r, a, b) == r.ok /\ r.v = Pair(a, b)

\* A body that carries neither option.
HasNoOption(r) ==
    /\ r.ok
    /\ Get(r.v, KeyOptionA).t = "undefined"
    /\ Get(r.v, KeyOptionB).t = "undefined"

\* A body { message: m, ... }.
HasMessage(r, m) == r.ok /\ Get(r.v, KeyMessage) = JsStr(m)

\* The free-text variant has answered a reply that carried output text.
FreeTextAnswered ==
    variant = "free_text" /\ Done /\ reply.kind = "text"

\* Positions of the "A:" and "B:" markers of a text, in any letter case.
AMarkers(t) == {i \in 1..(Len(t) - 1) : t[i] \in {"A", "a"} /\ t[i + 1] = ":"}
BMarkers(t) == {i \in 1..(Len(t) - 1) : t[i] \in {"B", "b"} /\ t[i + 1] = ":"}

TheOne(S) == CHOOSE x \in S : TRUE

IsBlank(s) == \A k \in 1..Len(s) : IsWs(s[k])

\* Where an "OR" (any letter case) that ends right before position k,
\* white space apart, starts; 0 when there is none.
OrBefore(t, k) ==
    LET solid == {m \in 1..(k - 1) : ~IsWs(t[m])}
        last == MaxOf(solid)
    IN  IF solid # {} /\ last >= 2 /\ t[last - 1] \in {"O", "o"}
           /\ t[last] \in {"R", "r"}
        THEN last - 1 ELSE 0

\* Positions at which " or " occurs in s.
OrWords(s) ==
    {f \in 1..(Len(s) - 3) : SubSeq(s, f, f + 3) = <<" ", "o", "r", " ">>}

\* The text after the one A marker of t.
AfterMarker(t) == SubSeq(t, TheOne(AMarkers(t)) + 2, Len(t))

\* t is [preamble] A: <x> OR B: <y> with one A marker, one B marker after
\* it, "OR" in front of the B marker and x, y not blank.
IsStrictForm(t) ==
    /\ Cardinality(AMarkers(t)) = 1
    /\ Cardinality(BMarkers(t)) = 1
    /\ OrBefore(t, TheOne(BMarkers(t))) >= TheOne(AMarkers(t)) + 2
    /\ ~IsBlank(SubSeq(t, TheOne(AMarkers(t)) + 2,
                       OrBefore(t, TheOne(BMarkers(t))) - 1))
    /\ ~IsBlank(SubSeq(t, TheOne(BMarkers(t)) + 2, Len(t)))

StrictX(t) ==
    SubSeq(t, TheOne(AMarkers(t)) + 2, OrBefore(t, TheOne(BMarkers(t))) - 1)

StrictY(t) == SubSeq(t, TheOne(BMarkers(t)) + 2, Len(t))

\* C1: in free-text mode every success response carries a pair whose
\* optionA and optionB are both non-empty strings, whatever the raw text.
C1_FreeTextPairNeverEmpty ==
    (variant = "free_text" /\ Done /\ response.statusCode = 200)
        => IsCompletePair(ResponseValue)

\* The text "A:x OR B: " (an empty B capture) answered with the literal
\* standing in for option B.
C1_Witness ==
    /\ FreeTextAnswered
    /\ reply.text = <<"A", ":", "x", " ", "O", "R", " ", "B", ":", " ">>
    /\ response.statusCode = 200
    /\ IsPairOf(ResponseValue, <<"x">>, FallbackOptionB)

\* C2: once the service has returned a reply carrying output text, the
\* request ends with the success status, in either mode.
C2_OutputTextNeverFails ==
    (Done /\ reply.kind = "text" /\ (reply.text # <<>> \/ reply.json # <<>>))
        => response.statusCode = 200

\* C3: in structured mode every response with the success status has a
\* body that is a complete pair.
C3_StructuredSuccessIsCompletePair ==
    (variant = "structured" /\ Done /\ response.statusCode = 200)
        => IsCompletePair(ResponseValue)

\* C4: for every text [preamble] A: <x> OR B: <y> with x and y not blank
\* (line breaks allowed in them) the pair returned is trim(x), trim(y).
C4_StrictFormExtracted ==
    (FreeTextAnswered /\ IsStrictForm(reply.text))
        => IsPairOf(ResponseValue, Trim(StrictX(reply.text)),
                    Trim(StrictY(reply.text)))

\* t has one A marker, no B marker, and " or " with something on both
\* sides in the text after the A marker.
HasOrWord(t) ==
    /\ Cardinality(AMarkers(t)) = 1
    /\ BMarkers(t) = {}
    /\ OrWords(AfterMarker(t)) # {}
    /\ ~IsBlank(SubSeq(AfterMarker(t), 1, MinOf(OrWords(AfterMarker(t))) - 1))
    /\ ~IsBlank(SubSeq(AfterMarker(t), MinOf(OrWords(AfterMarker(t))) + 4,
                       Len(AfterMarker(t))))

\* C5: with an A marker, no B marker and " or " after the A marker, the
\* text is split at the first " or ": optionA is the trimmed text before
\* it, optionB the trimmed text after it.
C5_SplitAtOrWord ==
    (FreeTextAnswered /\ HasOrWord(reply.text))
        => IsPairOf(ResponseValue,
              Trim(SubSeq(AfterMarker(reply.text), 1,
                          MinOf(OrWords(AfterMarker(reply.text))) - 1)),
              Trim(SubSeq(AfterMarker(reply.text),
                          MinOf(OrWords(AfterMarker(reply.text))) + 4,
                          Len(AfterMarker(reply.text)))))

\* t has one A marker and, after it, one B marker with no "OR" in front of
\* it and something on both sides.
HasBareBMarker(t) ==
    /\ Cardinality(AMarkers(t)) = 1
    /\ Cardinality(BMarkers(t)) = 1
    /\ TheOne(BMarkers(t)) >= TheOne(AMarkers(t)) + 2
    /\ OrBefore(t, TheOne(BMarkers(t))) = 0
    /\ ~IsBlank(SubSeq(t, TheOne(AMarkers(t)) + 2, TheOne(BMarkers(t)) - 1))
    /\ ~IsBlank(SubSeq(t, TheOne(BMarkers(t)) + 2, Len(t)))

\* C6: with a B marker embedded in the text after the A marker and no "OR"
\* in front of it, the text is split at that marker.
C6_SplitAtBMarker ==
    (FreeTextAnswered /\ HasBareBMarker(reply.text))
        => IsPairOf(ResponseValue,
              Trim(SubSeq(reply.text, TheOne(AMarkers(reply.text)) + 2,
                          TheOne(BMarkers(reply.text)) - 1)),
              Trim(SubSeq(reply.text, TheOne(BMarkers(reply.text)) + 2,
                          Len(reply.text))))

\* t has one A marker (at the start or after a preamble) and, after it,
\* text that is not blank and holds neither a B marker nor " or ".
HasOnlyA(t) ==
    /\ Cardinality(AMarkers(t)) = 1
    /\ BMarkers(t) = {}
    /\ OrWords(AfterMarker(t)) = {}
    /\ ~IsBlank(AfterMarker(t))

\* C7: with nothing but option A after the A marker, optionA is all the
\* text after the marker, trimmed, and optionB the fixed literal.
C7_OnlyAGivesLiteralB ==
    (FreeTextAnswered /\ HasOnlyA(reply.text))
        => IsPairOf(ResponseValue, Trim(AfterMarker(reply.text)),
                    FallbackOptionB)

\* C8: every text without an A marker (in any letter case), the empty text
\* included, gets the same fixed, non-empty default pair.
C8_NoMarkerGivesDefaultPair ==
    (FreeTextAnswered /\ AMarkers(reply.text) = {})
        => /\ response.statusCode = 200
           /\ IsPairOf(ResponseValue, DefaultOptionA, DefaultOptionB)
           /\ DefaultOptionA # <<>>
           /\ DefaultOptionB # <<>>

\* A text of several parts with a B marker and " or " but no A marker,
\* answered with the default pair.
C8_Witness ==
    /\ FreeTextAnswered
    /\ reply.text = <<"x", " ", "o", "r", " ", "B", ":", "x">>
    /\ IsPairOf(ResponseValue, DefaultOptionA, DefaultOptionB)

\* The configuration-failure response of either variant.
IsConfigurationFailure ==
    /\ response.statusCode = 500
    /\ \/ HasMessage(ResponseValue, MsgKeyNotSet)
       \/ HasMessage(ResponseValue, MsgKeyMissing)

\* C9: with the API key unset or empty, a POST is answered with the
\* configuration failure and no generation call is ever made.
C9_NoKeyNoCall ==
    (httpMethod = "POST" /\ ~(envKey.t = "str" /\ envKey.s # <<>>))
        => /\ calls = 0
           /\ pc \notin {"awaitGenerate", "resumed"}
           /\ reply = NoReply
           /\ Done => IsConfigurationFailure

\* The structured variant answering a POST with a malformed body while the
\* key is set to the empty string.
C9_Witness ==
    /\ Done
    /\ httpMethod = "POST"
    /\ variant = "structured"
    /\ envKey = JsStr(<<>>)
    /\ eventBody = <<LBrace>>
    /\ IsConfigurationFailure
    /\ calls = 0

\* C10: a request that is not a POST is rejected before anything else: the
\* body is not parsed, the key is not read, no call is made, and the
\* response is the "method not allowed" rejection, without a pair.
C10_NonPostRejectedFirst ==
    httpMethod # "POST"
        => /\ pc \in {"start", "done"}
           /\ ~bodyParsed
           /\ ~keyRead
           /\ calls = 0
           /\ log = <<>>
           /\ Done => /\ response.statusCode = 405
                      /\ HasMessage(ResponseValue, MsgMethodNotAllowed)
                      /\ HasNoOption(ResponseValue)

\* A GET carrying a category, with the key set, rejected.
C10_Witness ==
    /\ Done
    /\ httpMethod = "GET"
    /\ envKey = JsStr(<<"k">>)
    /\ eventBody = <<LBrace, StrTok(KeyCategory), Colon, StrTok(Food), RBrace>>
    /\ response.statusCode = 405
    /\ category = General

\* The kind of failure a response reports, read from its message.
IsMethodRejection == Done /\ HasMessage(ResponseValue, MsgMethodNotAllowed)

ReportsMissingConfiguration ==
    /\ Done
    /\ \/ HasMessage(ResponseValue, MsgKeyNotSet)
       \/ HasMessage(ResponseValue, MsgKeyMissing)

IsGenerationFailure == Done /\ HasMessage(ResponseValue, MsgGenerationFailed)

\* C11: the three failure kinds have pairwise distinct statuses: a response
\* reporting one kind never carries the status of either other kind, so
\* the status alone tells the kinds apart.
C11_FailureStatusesDistinct ==
    /\ IsMethodRejection =>
           response.statusCode \notin {StatusConfigurationError, StatusGenerationFailed}
    /\ ReportsMissingConfiguration =>
           response.statusCode \notin {StatusMethodNotAllowed, StatusGenerationFailed}
    /\ IsGenerationFailure =>
           response.statusCode \notin {StatusMethodNotAllowed, StatusConfigurationError}

\* A body that carries an error text next to its message (the details
\* property of line 99, the error property of line 189).
CarriesErrorText(r) ==
    /\ r.ok
    /\ \/ IsNonEmptyStr(Get(r.v, KeyDetails))
       \/ IsNonEmptyStr(Get(r.v, KeyError))

\* C12: a request makes at most one generation call, and when that call
\* rejects or resolves with a reply that has no content envelope, the
\* request ends with the generation-failed response, carrying a message
\* and an error text, after that one call.
C12_SingleCallFailureReported ==
    /\ calls <= 1
    /\ (Done /\ reply.kind \in {"reject", "noEnvelope"})
          => /\ calls = 1
             /\ response.statusCode = StatusGenerationFailed
             /\ HasMessage(ResponseValue, MsgGenerationFailed)
             /\ CarriesErrorText(ResponseValue)

\* The category string the caller supplied: the category property of the
\* body when the body parses and has one, "General" otherwise.
SuppliedCategory(body) ==
    LET parsed == JSONParse(body)
    IN  IF parsed.ok /\ Get(parsed.v, KeyCategory).t = "str"
        THEN Get(parsed.v, KeyCategory).s
        ELSE General

\* C13: the prompt carries the caller's category string verbatim, the
\* empty string included, and "General" when the body does not parse or has
\* no category; a malformed body does not end the request, which goes on
\* to read the key.
C13_CategoryVerbatim ==
    /\ calls = 1 => prompt.category = SuppliedCategory(eventBody)
    /\ (httpMethod = "POST" /\ Done /\ ~JSONParse(eventBody).ok) => keyRead

\* The generation-failed response with error text err.
FailureResponse(detailsKey, err) ==
    Respond(StatusGenerationFailed, FALSE,
            Obj2(KeyMessage, MsgGenerationFailed, detailsKey, err))

\* The success response of the free-text variant for an extraction.
PairResponse(got) == Respond(StatusOK, TRUE, Pair(got.optionA, got.optionB))

\* The responses the handler can give when it runs alone, from its entry
\* to its return, on request (method, body) with key in the environment
\* and the generation call settling as r.
SoloResponses(v, method, body, key, r) ==
    IF method # "POST"
    THEN {Respond(StatusMethodNotAllowed, FALSE, Obj1(KeyMessage, MsgMethodNotAllowed))}
    ELSE IF ~Truthy(key)
    THEN {Respond(StatusConfigurationError, FALSE,
                  Obj1(KeyMessage, IF v = "free_text" THEN MsgKeyNotSet
                                   ELSE MsgKeyMissing))}
    ELSE IF v = "free_text"
    THEN CASE r.kind = "reject" -> {FailureResponse(KeyDetails, r.err)}
           [] r.kind = "noEnvelope" ->
                  {FailureResponse(KeyDetails, ErrBlocked),
                   PairResponse(ExtractOptions(<<>>))}
           [] OTHER -> {PairResponse(ExtractOptions(r.text))}
    ELSE CASE r.kind = "reject" -> {FailureResponse(KeyError, r.err)}
           [] r.kind = "noEnvelope" -> {FailureResponse(KeyError, ErrNoCandidates)}
           [] OTHER ->
                  IF JSONParse(r.json).ok
                  THEN {Respond(StatusOK, TRUE, JSONParse(r.json).v)}
                  ELSE {FailureResponse(KeyError, ErrSyntax)}

\* C14: two invocations share no mutable state: however they interleave at
\* their suspension points, each one calls the service with the prompt of
\* its own request and returns a response it could have returned running
\* alone on its own request, the same key and its own reply.
C14_InvocationsIndependent ==
    /\ calls = 1 => prompt = BuildPrompt(variant, CategoryOf(eventBody))
    /\ other.calls = 1 =>
           other.prompt = BuildPrompt(variant, CategoryOf(other.eventBody))
    /\ Done => response \in SoloResponses(variant, httpMethod, eventBody,
                                          envKey, serviceReply)
    /\ other.pc = "done" =>
           other.response \in SoloResponses(variant, other.httpMethod,
                                            other.eventBody, envKey,
                                            other.serviceReply)

\* Two invocations that were in flight together, with different
\* categories and different replies, both returned, each with the
\* response to its own reply.
C14_Witness ==
    /\ overlapped
    /\ Done
    /\ other.pc = "done"
    /\ calls = 1
    /\ other.calls = 1
    /\ prompt.category # other.prompt.category
    /\ serviceReply.kind = "text"
    /\ other.serviceReply.kind = "reject"
    /\ response.statusCode = StatusOK
    /\ other.response.statusCode = StatusGenerationFailed

\* t has an A marker with text that is not blank somewhere after it.
HasTextAfterMarker(t) ==
    \E i \in AMarkers(t) : ~IsBlank(SubSeq(t, i + 2, Len(t)))

\* a occurs in s as a run of consecutive characters.
IsSubstring(a, s) ==
    \E k \in 0..(Len(s) - Len(a)) : SubSeq(s, k + 1, k + Len(a)) = a

\* C15: whenever the raw text has an A marker followed by text that is not
\* blank (line breaks or not), the pair returned is not the fixed default
\* pair: its optionA is a non-empty piece of the text after the first A
\* marker.
C15_DefaultOnlyWithoutMarker ==
    (FreeTextAnswered /\ HasTextAfterMarker(reply.text))
        => /\ ResponseValue.ok
           /\ ~IsPairOf(ResponseValue, DefaultOptionA, DefaultOptionB)
           /\ IsNonEmptyStr(Get(ResponseValue.v, KeyOptionA))
           /\ IsSubstring(Get(ResponseValue.v, KeyOptionA).s,
                          SubSeq(reply.text, MinOf(AMarkers(reply.text)) + 2,
                                 Len(reply.text)))

\* C16: every response the free-text extraction produces, through the
\* strict pattern, the degraded pattern or the total-failure defaults, comes
\* with a warning in the log that carries the raw model text as it was
\* received.
C16_FallbackTierLogged ==
    (FreeTextAnswered /\ response.statusCode = StatusOK)
        => \E k \in 1..Len(log) :
              /\ log[k].level = "warn"
              /\ log[k].arg = reply.text

\* The question that is shown, if any, has both options.
QuestionComplete ==
    question # JsNull
        => /\ IsNonEmptyStr(Get(question, KeyOptionA))
           /\ IsNonEmptyStr(Get(question, KeyOptionB))

\* Either a question and no error, or an error and no question.
QuestionOrError ==
    \/ question # JsNull /\ error = <<>>
    \/ question = JsNull /\ error # <<>>

\* The one run in flight has read a successful response whose question is
\* not a complete pair.
IncompleteArrived ==
    /\ Len(runs) = 1
    /\ runs[1].pc = "awaitJson"
    /\ ResponseOk(runs[1].fetched.status)
    /\ ~IsCompletePair(JSONParse(IF app = "function" THEN runs[1].fetched.body
                                 ELSE runs[1].fetched.text))

\* C17: on the page a question that is not null always has both options
\* non-empty; when a generateQuestion run returns, either the question is
\* set and the error empty, or the question is null and the error a
\* non-empty message; and a successful response with a missing or empty
\* option ends as an error, not as a question.
C17_QuestionOrError ==
    [][ /\ QuestionComplete'
        /\ Len(runs') < Len(runs) => QuestionOrError'
        /\ IncompleteArrived => (question' = JsNull /\ error' # <<>>)
      ]_vars

\* The App that calls the function, back at rest after a successful
\* response without a valid pair: the invalid-format error and no question.
C17_Witness ==
    /\ app = "function"
    /\ runs = <<>>
    /\ ~isLoading
    /\ question = JsNull
    /\ error = ErrorShown(UiInvalidFormat)

\* C18: a question that is shown was generated for the category that is
\* selected; while a request is in flight it is the only one and the
\* selected category is still the one it carries.
C18_QuestionForSelectedCategory ==
    /\ question # JsNull => questionFor = uiCategory
    /\ Len(runs) <= 1
    /\ \A i \in 1..Len(runs) : runs[i].category = uiCategory

\* A question shown for a category that had to be selected first.
C18_Witness ==
    /\ question # JsNull
    /\ ~isLoading
    /\ uiCategory = Tech
    /\ questionFor = Tech

\* C19: isLoading is true exactly while a generateQuestion run has not
\* returned; a run starts with isLoading true and question and error
\* cleared; and when requests settle, isLoading always comes back to false.
C19_LoadingWhileInFlight ==
    /\ [](isLoading <=> runs # <<>>)
    /\ [][Len(runs') > Len(runs)
            => (isLoading' /\ question' = JsNull /\ error' = <<>>)]_vars
    /\ (isLoading ~> ~isLoading)

\* A run whose fetch threw, returned: the error is shown and isLoading is
\* false again.
C19_Witness ==
    /\ ~isLoading
    /\ runs = <<>>
    /\ question = JsNull
    /\ error = ErrorShown(UiFailedToFetch)

====
